---------------------------- MODULE Spec2Model ----------------------------
(***************************************************************************)
(* Image cleaning of a mounted VM image (service/imaging/clean.py).        *)
(*                                                                         *)
(* The three entry points remove_user_data, remove_atmo_data and           *)
(* remove_vm_specific_data check the mount, build their tables and hand    *)
(* them to _perform_cleaning, which calls the five file operations of      *)
(* service/imaging/common.py in a fixed order.  common.py is not part of   *)
(* the sources at hand: check_mounted and the five file operations are     *)
(* modelled from the written specification (sections 4.1 and 4.2).         *)
(*                                                                         *)
(* A file name is a sequence of tokens (".bash_history" is <<".",          *)
(* "bash_history">>), a path a sequence of names relative to the mounted   *)
(* root, a line of text a sequence of tokens, a glob or a regular          *)
(* expression a sequence of tokens in which "*" resp. ".*" is a wildcard.  *)
(***************************************************************************)
EXTENDS Naturals, Sequences, FiniteSets

VARIABLES
    fs,         \* the tree under the path: path -> [kind, lines]
    denied,     \* list of the paths whose mutation the operating system refuses
    pc,         \* position of the running call
    profile,    \* entry point of the current (or last) call
    dry_run,    \* its dry_run argument
    mounted,    \* what check_mounted answered for its path
    err,        \* exception the call raised, "none" if none
    returned,   \* value the call returned to its caller
    log,        \* log lines of the call, one per (intended) mutation
    warnings,   \* failures the file operations logged during the call
    trace,      \* stages of _perform_cleaning started by the call, in order
    fs0,        \* the tree when the call was made
    repeat,     \* the call repeats the call before it: same entry point,
                \* both on a mounted path, both with dry_run=False
    errPrev     \* what the repeated call raised

vars == <<fs, denied, pc, profile, dry_run, mounted, err, returned, log,
          warnings, trace, fs0, repeat, errPrev>>

---------------------------------------------------------------------------
(* Bounds *)

MaxGroupLines == 2
MaxSudoersLines == 3

---------------------------------------------------------------------------
(* Names, paths and the modelled part of the tree *)

N(s) == <<s>>
HiddenName(s) == <<".", s>>

P1(a) == <<N(a)>>
P2(a, b) == <<N(a), N(b)>>
P3(a, b, c) == <<N(a), N(b), N(c)>>
P4(a, b, c, d) == <<N(a), N(b), N(c), N(d)>>

RootPath == <<>>
BashHistory == <<N("root"), HiddenName("bash_history")>>
SkelBashrc == <<N("etc"), N("skel"), HiddenName("bashrc")>>
EtcGroup == P2("etc", "group")
SshdConfig == P3("etc", "ssh", "sshd_config")
Sudoers == P2("etc", "sudoers")
Syslog == P3("var", "log", "syslog")
AuthLog == P3("var", "log", "auth.log")

DirPaths ==
    { RootPath, P1("home"), P2("home", "alice"), P1("home2"), P1("etc"),
      P2("etc", "ssh"), P1("root"), P1("tmp"), P1("var"), P2("var", "log") }

FilePaths ==
    { P3("home", "alice", "notes"), P2("home2", "file"), EtcGroup,
      P2("etc", "passwd"), SshdConfig, Sudoers, P2("etc", "rc.local.atmo"),
      BashHistory, P2("root", "notes"), P2("tmp", "scratch"), Syslog, AuthLog }

Paths == DirPaths \cup FilePaths

\* A fixed enumeration of Paths: the order in which a glob yields its matches.
PathList ==
    << RootPath, P1("etc"), EtcGroup, P2("etc", "passwd"),
       P2("etc", "rc.local.atmo"), P2("etc", "ssh"), SshdConfig, Sudoers,
       P1("home"), P2("home", "alice"), P3("home", "alice", "notes"),
       P1("home2"), P2("home2", "file"), P1("root"), BashHistory,
       P2("root", "notes"), P1("tmp"), P2("tmp", "scratch"), P1("var"),
       P2("var", "log"), AuthLog, Syslog >>

Absent == [kind |-> "absent", lines |-> <<>>]
Dir == [kind |-> "dir", lines |-> <<>>]
File(ls) == [kind |-> "file", lines |-> ls]

Entry(tree, p) == IF p \in Paths THEN tree[p] ELSE Absent

IsPrefix(p, q) == Len(p) <= Len(q) /\ SubSeq(q, 1, Len(p)) = p


---------------------------------------------------------------------------
(* Pattern matching: globs over names, regular expressions over lines *)

\* A name against one segment of a glob, token by token: "*" stands for any
\* run of tokens, every other token for itself.
RECURSIVE GlobTokens(_, _)
GlobTokens(pat, name) ==
    IF pat = <<>> THEN name = <<>>
    ELSE IF Head(pat) = "*"
         THEN \E k \in 0..Len(name) :
                  GlobTokens(Tail(pat), SubSeq(name, k + 1, Len(name)))
         ELSE /\ name # <<>>
              /\ Head(name) = Head(pat)
              /\ GlobTokens(Tail(pat), Tail(name))

\* A glob wildcard never matches the leading dot of a hidden name.
GlobSegment(pat, name) ==
    /\ pat # <<>>
    /\ name # <<>>
    /\ (Head(name) = "." => Head(pat) = ".")
    /\ GlobTokens(pat, name)

GlobMatch(pattern, path) ==
    /\ Len(pattern) = Len(path)
    /\ \A i \in 1..Len(pattern) : GlobSegment(pattern[i], path[i])

\* The entries of the tree a pattern expands to, resolved when the operation
\* runs.
Glob(pattern, tree) ==
    { p \in Paths : tree[p].kind # "absent" /\ GlobMatch(pattern, p) }

\* A regular expression against a whole line: ".*" is any run of tokens,
\* "$" the end of the line, every other token itself.
RECURSIVE RegexTokens(_, _)
RegexTokens(pat, line) ==
    IF pat = <<>> THEN line = <<>>
    ELSE IF Head(pat) = ".*"
         THEN \E k \in 0..Len(line) :
                  RegexTokens(Tail(pat), SubSeq(line, k + 1, Len(line)))
         ELSE IF Head(pat) = "$"
              THEN line = <<>> /\ RegexTokens(Tail(pat), line)
              ELSE /\ line # <<>>
                   /\ Head(line) = Head(pat)
                   /\ RegexTokens(Tail(pat), Tail(line))

LineMatches(pattern, line) == RegexTokens(pattern, line)

---------------------------------------------------------------------------
(* The five file operations.  Each takes the list of specs, the running    *)
(* result acc = [fs, log, warnings], the refused paths and dry_run.        *)

LogEntry(op, p) == [op |-> op, path |-> p]

Refused(dn, p) == \E i \in 1..Len(dn) : dn[i] = p

\* One mutation of one target: logged; under dry_run nothing else happens; a
\* refused or ill-typed target is recorded as a warning and left as it is.
Mutate(acc, op, p, ok, tree, dn, dry) ==
    IF dry THEN [acc EXCEPT !.log = Append(@, LogEntry(op, p))]
    ELSE IF Refused(dn, p) \/ ~ok
         THEN [acc EXCEPT !.log = Append(@, LogEntry(op, p)),
                          !.warnings = Append(@, LogEntry(op, p))]
         ELSE [fs |-> tree, log |-> Append(acc.log, LogEntry(op, p)),
               warnings |-> acc.warnings]

\* The log lines of one operation on a list of targets.
Entries(op, targets) == [i \in 1..Len(targets) |-> LogEntry(op, targets[i])]

\* One pattern of remove_files: every entry it expands to is deleted with
\* all that lies below it.
RemoveMatches(pattern, acc, dn, dry) ==
    LET matches == Glob(pattern, acc.fs)
        matched == SelectSeq(PathList, LAMBDA p : p \in matches)
        failed == SelectSeq(matched, LAMBDA p : Refused(dn, p))
        gone(q) == \E i \in 1..Len(matched) :
                       ~Refused(dn, matched[i]) /\ IsPrefix(matched[i], q)
    IN  [fs |-> IF dry THEN acc.fs
                ELSE [q \in Paths |-> IF gone(q) THEN Absent ELSE acc.fs[q]],
         log |-> acc.log \o Entries("remove", matched),
         warnings |-> IF dry THEN acc.warnings
                      ELSE acc.warnings \o Entries("remove", failed)]

RECURSIVE remove_files(_, _, _, _)
remove_files(rm_files, acc, dn, dry) ==
    IF rm_files = <<>> THEN acc
    ELSE remove_files(Tail(rm_files),
                      RemoveMatches(Head(rm_files), acc, dn, dry), dn, dry)

\* Every target that exists is truncated to zero length; a directory cannot
\* be truncated.
overwrite_files(overwrite_list, acc, dn, dry) ==
    LET present == SelectSeq(overwrite_list,
                             LAMBDA p : Entry(acc.fs, p).kind # "absent")
        bad(p) == Refused(dn, p) \/ Entry(acc.fs, p).kind # "file"
        failed == SelectSeq(present, LAMBDA p : bad(p))
        blanked(q) == \E i \in 1..Len(present) : present[i] = q /\ ~bad(q)
    IN  [fs |-> IF dry THEN acc.fs
                ELSE [q \in Paths |->
                         IF blanked(q) THEN File(<<>>) ELSE acc.fs[q]],
         log |-> acc.log \o Entries("overwrite", present),
         warnings |-> IF dry THEN acc.warnings
                      ELSE acc.warnings \o Entries("overwrite", failed)]

\* Rewrites the content of target p, if it exists; a directory cannot be
\* rewritten.
Rewrite(acc, op, p, newLines, dn, dry) ==
    LET e == Entry(acc.fs, p) IN
    IF e.kind = "absent" THEN acc
    ELSE Mutate(acc, op, p, e.kind = "file",
                IF p \in Paths THEN [acc.fs EXCEPT ![p] = File(newLines)]
                               ELSE acc.fs,
                dn, dry)

RECURSIVE DropMatching(_, _)
DropMatching(pattern, lines) ==
    IF lines = <<>> THEN <<>>
    ELSE (IF LineMatches(pattern, Head(lines)) THEN <<>> ELSE <<Head(lines)>>)
         \o DropMatching(pattern, Tail(lines))

RECURSIVE remove_line_in_files(_, _, _, _)
remove_line_in_files(specs, acc, dn, dry) ==
    IF specs = <<>> THEN acc
    ELSE LET s == Head(specs)
             old == Entry(acc.fs, s.file).lines
         IN  remove_line_in_files(Tail(specs),
                 Rewrite(acc, "remove_line", s.file,
                         DropMatching(s.pattern, old), dn, dry),
                 dn, dry)

\* Every matching line becomes the replacement; an empty replacement deletes
\* the line.
RECURSIVE ReplaceMatching(_, _, _)
ReplaceMatching(pattern, replacement, lines) ==
    IF lines = <<>> THEN <<>>
    ELSE (IF LineMatches(pattern, Head(lines))
          THEN (IF replacement = <<>> THEN <<>> ELSE <<replacement>>)
          ELSE <<Head(lines)>>)
         \o ReplaceMatching(pattern, replacement, Tail(lines))

RECURSIVE replace_line_in_files(_, _, _, _)
replace_line_in_files(specs, acc, dn, dry) ==
    IF specs = <<>> THEN acc
    ELSE LET s == Head(specs)
             old == Entry(acc.fs, s.file).lines
         IN  replace_line_in_files(Tail(specs),
                 Rewrite(acc, "replace_line", s.file,
                         ReplaceMatching(s.pattern, s.replacement, old),
                         dn, dry),
                 dn, dry)

\* Copies the lines outside the ranges; deleting is TRUE inside a range.
\* The result says whether the last range was still open at the end.
RECURSIVE DeleteRanges(_, _, _, _)
DeleteRanges(from, to, lines, deleting) ==
    IF lines = <<>> THEN [lines |-> <<>>, open |-> deleting]
    ELSE LET l == Head(lines) IN
         IF deleting
         THEN DeleteRanges(from, to, Tail(lines), ~LineMatches(to, l))
         ELSE IF LineMatches(from, l)
              THEN DeleteRanges(from, to, Tail(lines), TRUE)
              ELSE LET r == DeleteRanges(from, to, Tail(lines), FALSE)
                   IN  [lines |-> <<l>> \o r.lines, open |-> r.open]

\* An unterminated range is deleted through the end of the file, with a
\* warning.
Unterminated(acc, after, s, r, dry) ==
    IF r.open /\ ~dry /\ Entry(acc.fs, s.file).kind = "file"
    THEN [after EXCEPT !.warnings = Append(@, LogEntry("not_terminated", s.file))]
    ELSE after

RECURSIVE remove_multiline_in_files(_, _, _, _)
remove_multiline_in_files(specs, acc, dn, dry) ==
    IF specs = <<>> THEN acc
    ELSE LET s == Head(specs)
             old == Entry(acc.fs, s.file).lines
             r == DeleteRanges(s.from, s.to, old, FALSE)
             after == Rewrite(acc, "delete_range", s.file, r.lines, dn, dry)
         IN  remove_multiline_in_files(Tail(specs),
                 Unterminated(acc, after, s, r, dry), dn, dry)

\* MountGuard: a pure query of the mount table; m is its answer.
check_mounted(m) == m

---------------------------------------------------------------------------
(* The tables of the three entry points *)

Star == <<"*">>
Literal(text) == <<text>>
LineSpec(pattern, replacement, file) ==
    [pattern |-> pattern, replacement |-> replacement, file |-> file]
RangeSpec(from, to, file) == [from |-> from, to |-> to, file |-> file]

\* remove_user_data
UserRemoveFiles == << <<N("home"), Star>> >>
\* A regular file in the overwrite list.
UserOverwriteFilesPasswd == << P2("etc", "passwd") >>
UserOverwriteFiles == << RootPath >>
\* The normalised users line also listed for removal.
UserRemoveLineFilesStale ==
    << [pattern |-> Literal("users:x:100:"), file |-> EtcGroup] >>
UserRemoveLineFiles == << >>
\* Pattern and replacement of the etc/group row in each other's place.
UserReplaceLineFilesSwapped ==
    << LineSpec(Literal("users:x:100:"), <<"users:x:100:", ".*">>, EtcGroup),
       LineSpec(<<"AllowGroups users root", ".*">>, <<>>, SshdConfig) >>
UserReplaceLineFiles ==
    << LineSpec(<<"users:x:100:", ".*">>, Literal("users:x:100:"), EtcGroup),
       LineSpec(<<"AllowGroups users root", ".*">>, <<>>, SshdConfig) >>
UserMultilineDeleteFiles == << >>

\* remove_atmo_data
AtmoRemoveFiles ==
    << P2("etc", "rc.local.atmo"),
       P3("usr", "sbin", "atmo_boot.py"),
       P4("var", "log", "atmo", "atmo_boot.log"),
       P4("var", "log", "atmo", "atmo_init.log"),
       P4("var", "log", "atmo", "atmo_init_full.log"),
       P4("var", "log", "atmo", "shellinaboxd.log"),
       P4("var", "log", "atmo", "deploy.log"),
       <<N("var"), N("lib"), N("puppet"), N("run"), <<"*", ".pid">> >>,
       P3("etc", "puppet", "ssl"),
       P3("var", "log", "puppet") >>
AtmoOverwriteFiles == << >>
AtmoRemoveLineFiles == << >>
AtmoReplaceLineFiles ==
    << LineSpec(<<".*", "vncserver", "$">>, <<>>, P2("etc", "rc.local")),
       LineSpec(<<".*", "shellinbaox", ".*">>, <<>>, P2("etc", "rc.local")) >>

AtmosphereStart == Literal("## Atmosphere System")
EndNagios == Literal("# End Nagios")
EndAtmosphere1 == Literal("# End Atmosphere System")
EndAtmosphere2 == Literal("## End Atmosphere System")

\* The two etc/sudoers rows in the other order.
AtmoSudoersSpecsSwapped ==
    << RangeSpec(AtmosphereStart, EndAtmosphere1, Sudoers),
       RangeSpec(AtmosphereStart, EndNagios, Sudoers) >>

\* The two etc/sudoers rows of multiline_delete_files, in table order.
AtmoSudoersSpecs ==
    << RangeSpec(AtmosphereStart, EndNagios, Sudoers),
       RangeSpec(AtmosphereStart, EndAtmosphere1, Sudoers) >>

\* The elements of the list literal as written.  No comma separates the
\* etc/ssh/sshd_config tuple from the etc/skel/.bashrc tuple, so the third
\* element is a call: the first tuple applied to the items of the second.
Tuple(v) == [kind |-> "tuple", val |-> v, args |-> <<>>]
CallOfTuple(v, args) == [kind |-> "call", val |-> v, args |-> args]
AtmoMultilineElements ==
    << Tuple(AtmoSudoersSpecs[1]),
       Tuple(AtmoSudoersSpecs[2]),
       CallOfTuple(RangeSpec(AtmosphereStart, EndAtmosphere2, SshdConfig),
                   RangeSpec(AtmosphereStart, EndAtmosphere2, SkelBashrc)) >>

\* Evaluating a list literal evaluates its elements; calling a tuple raises
\* TypeError ('tuple' object is not callable).
ListLiteralRaises(elements) ==
    \E i \in 1..Len(elements) : elements[i].kind = "call"

ListLiteralValue(elements) == [i \in 1..Len(elements) |-> elements[i].val]

\* remove_vm_specific_data
\* The log directory wiped with the transient directories.
VmRemoveFilesWithLogs ==
    << <<N("mnt"), Star>>, <<N("tmp"), Star>>, <<N("root"), Star>>,
       <<N("dev"), Star>>, <<N("proc"), Star>>, <<N("var"), N("log"), Star>> >>
VmRemoveFiles ==
    << <<N("mnt"), Star>>, <<N("tmp"), Star>>, <<N("root"), Star>>,
       <<N("dev"), Star>>, <<N("proc"), Star>> >>
VmRemoveLineFiles == << >>
VmOverwriteFiles ==
    << BashHistory, AuthLog,
       P3("var", "log", "boot.log"), P3("var", "log", "daemon.log"),
       P3("var", "log", "denyhosts.log"), P3("var", "log", "dmesg"),
       P3("var", "log", "secure"), P3("var", "log", "messages"),
       P3("var", "log", "lastlog"), P4("var", "log", "cups", "access_log"),
       P4("var", "log", "cups", "error_log"), Syslog,
       P3("var", "log", "user.log"), P3("var", "log", "wtmp"),
       P4("var", "log", "apache2", "access.log"),
       P4("var", "log", "apache2", "error.log"),
       P3("var", "log", "yum.log") >>
VmReplaceLineFiles == << >>
VmMultilineDeleteFiles == << >>

\* The keyword arguments each entry point passes to _perform_cleaning.
Tables(prof) ==
    CASE prof = "remove_user_data" ->
           [rm_files |-> UserRemoveFiles,
            remove_line_files |-> UserRemoveLineFiles,
            overwrite_list |-> UserOverwriteFiles,
            replace_line_files |-> UserReplaceLineFiles,
            multiline_delete_files |-> UserMultilineDeleteFiles]
      [] prof = "remove_atmo_data" ->
           [rm_files |-> AtmoRemoveFiles,
            remove_line_files |-> AtmoRemoveLineFiles,
            overwrite_list |-> AtmoOverwriteFiles,
            replace_line_files |-> AtmoReplaceLineFiles,
            multiline_delete_files |-> ListLiteralValue(AtmoMultilineElements)]
      [] prof = "remove_vm_specific_data" ->
           [rm_files |-> VmRemoveFiles,
            remove_line_files |-> VmRemoveLineFiles,
            overwrite_list |-> VmOverwriteFiles,
            replace_line_files |-> VmReplaceLineFiles,
            multiline_delete_files |-> VmMultilineDeleteFiles]

\* Whether building the tables of an entry point raises.
TablesRaise(prof) ==
    prof = "remove_atmo_data" /\ ListLiteralRaises(AtmoMultilineElements)

\* The mount checks of the three entry points: TRUE lets the call proceed.
\* An entry point that goes on without looking at the answer.
VmDataMountCheckSkipped(m) == TRUE
UserDataMountCheck(m) == check_mounted(m)
AtmoDataMountCheck(m) == check_mounted(m)
VmDataMountCheck(m) == check_mounted(m)

MountCheck(prof, m) ==
    CASE prof = "remove_user_data" -> UserDataMountCheck(m)
      [] prof = "remove_atmo_data" -> AtmoDataMountCheck(m)
      [] prof = "remove_vm_specific_data" -> VmDataMountCheck(m)

\* The order in which _perform_cleaning calls the file operations.
StageOrder ==
    << "remove_files", "overwrite_files", "remove_line_in_files",
       "replace_line_in_files", "remove_multiline_in_files" >>

StageAfter(stage) ==
    LET i == CHOOSE k \in 1..Len(StageOrder) : StageOrder[k] = stage
    IN  IF i = Len(StageOrder) THEN "return" ELSE StageOrder[i + 1]

\* What a call hands back: None, or a list.
None == [value |-> "None", items |-> <<>>]
ListValue(items) == [value |-> "list", items |-> items]
NotReturned == [value |-> "pending", items |-> <<>>]

\* A call that hands the warnings back.
ReturnsWarnings(ws) == ListValue(ws)

\* _perform_cleaning and the entry points have no return statement: whatever
\* the file operations met, the caller gets None.
ReturnValue(ws) == None

---------------------------------------------------------------------------
(* Initial trees *)

BoundedSeq(S, n) == UNION { [1..k -> S] : k \in 0..n }

SomeText == << <<"text">> >>

GroupLines ==
    { <<"users:x:100:", "alice,bob">>, <<"users:x:100:">>,
      <<"wheel:x:10:", "root">>, <<"#", "users:x:100:", "alice">> }

SshdContents ==
    { << <<"Port 22">> >>,
      << <<"AllowGroups users root", " core-services">>, <<"Port 22">> >> }

SudoersLines ==
    { AtmosphereStart, EndNagios, EndAtmosphere1, <<"foo">>, <<"keep">> }

SudoersWithBlock ==
    << AtmosphereStart, <<"foo">>, <<"bar">>, EndNagios, <<"keep">> >>

LogStates == {"absent", "empty", "text"}

LogFile(st) ==
    CASE st = "absent" -> Absent
      [] st = "empty" -> File(<<>>)
      [] st = "text" -> File(SomeText)

\* A root holding nothing at all.
BareTree == [p \in Paths |-> IF p = RootPath THEN Dir ELSE Absent]

\* An image with the usual directories.  populated: a user's home and the
\* transient files exist; logs: the state of the history and log files;
\* group, sshd: the entries etc/group and etc/ssh/sshd_config; atmo: the
\* platform's files and its block in etc/sudoers are present.
ImageTree(populated, logs, group, sshd, atmo) ==
    [p \in Paths |->
        CASE p \in {P2("home", "alice")} -> IF populated THEN Dir ELSE Absent
          [] p \in {P3("home", "alice", "notes"), P2("root", "notes"),
                    P2("tmp", "scratch")} ->
                 IF populated THEN File(SomeText) ELSE Absent
          [] p \in DirPaths \ {P2("home", "alice")} -> Dir
          [] p \in {BashHistory, Syslog, AuthLog} -> LogFile(logs)
          [] p = EtcGroup -> group
          [] p = SshdConfig -> sshd
          [] p = Sudoers ->
                 IF atmo THEN File(SudoersWithBlock) ELSE File(<<<<"keep">>>>)
          [] p = P2("etc", "rc.local.atmo") ->
                 IF atmo THEN File(SomeText) ELSE Absent
          [] OTHER -> File(SomeText)]

GroupEntries ==
    {Absent} \cup { File(ls) : ls \in BoundedSeq(GroupLines, MaxGroupLines) }

InitialTrees ==
    {BareTree} \cup
    { ImageTree(populated, logs, group, sshd, atmo) :
        populated \in BOOLEAN, logs \in LogStates, group \in GroupEntries,
        sshd \in {Absent} \cup { File(c) : c \in SshdContents },
        atmo \in BOOLEAN }

InitCall ==
    /\ pc = "idle"
    /\ profile = "none"
    /\ dry_run = FALSE
    /\ mounted = FALSE
    /\ err = "none"
    /\ returned = NotReturned
    /\ log = <<>>
    /\ warnings = <<>>
    /\ trace = <<>>
    /\ fs0 = fs
    /\ repeat = FALSE
    /\ errPrev = "none"

Init ==
    /\ fs \in InitialTrees
    /\ denied = <<>>
    /\ InitCall

---------------------------------------------------------------------------
(* The calls *)

Acc == [fs |-> fs, log |-> log, warnings |-> warnings]

\* An entry point up to its call of _perform_cleaning: the mount check, then
\* the tables.
EntryPoint(prof, d, m) ==
    /\ pc \in {"idle", "returned", "raised"}
    /\ profile' = prof
    /\ dry_run' = d
    /\ mounted' = m
    /\ fs0' = fs
    /\ log' = <<>>
    /\ warnings' = <<>>
    /\ trace' = <<>>
    /\ returned' = NotReturned
    /\ repeat' = (/\ pc \in {"returned", "raised"}
                  /\ profile = prof
                  /\ mounted /\ m
                  /\ ~dry_run /\ ~d)
    /\ errPrev' = IF repeat' THEN err ELSE "none"
    /\ IF ~MountCheck(prof, m)
       THEN pc' = "raised" /\ err' = "NotMounted"
       ELSE IF TablesRaise(prof)
            THEN pc' = "raised" /\ err' = "TypeError"
            ELSE pc' = StageOrder[1] /\ err' = "none"
    /\ UNCHANGED <<fs, denied>>

remove_user_data(d, m) == EntryPoint("remove_user_data", d, m)
remove_atmo_data(d, m) == EntryPoint("remove_atmo_data", d, m)
remove_vm_specific_data(d, m) == EntryPoint("remove_vm_specific_data", d, m)

\* One call of _perform_cleaning to a file operation.
Stage(name, r) ==
    /\ pc = name
    /\ fs' = r.fs
    /\ log' = r.log
    /\ warnings' = r.warnings
    /\ trace' = Append(trace, name)
    /\ pc' = StageAfter(name)
    /\ UNCHANGED <<denied, profile, dry_run, mounted, err, returned, fs0,
                   repeat, errPrev>>

RemoveFilesStage ==
    /\ pc = "remove_files"
    /\ Stage("remove_files",
             remove_files(Tables(profile).rm_files, Acc, denied, dry_run))

OverwriteFilesStage ==
    /\ pc = "overwrite_files"
    /\ Stage("overwrite_files",
             overwrite_files(Tables(profile).overwrite_list, Acc, denied,
                             dry_run))

RemoveLineInFilesStage ==
    /\ pc = "remove_line_in_files"
    /\ Stage("remove_line_in_files",
             remove_line_in_files(Tables(profile).remove_line_files, Acc,
                                  denied, dry_run))

ReplaceLineInFilesStage ==
    /\ pc = "replace_line_in_files"
    /\ Stage("replace_line_in_files",
             replace_line_in_files(Tables(profile).replace_line_files, Acc,
                                   denied, dry_run))

RemoveMultilineInFilesStage ==
    /\ pc = "remove_multiline_in_files"
    /\ Stage("remove_multiline_in_files",
             remove_multiline_in_files(Tables(profile).multiline_delete_files,
                                       Acc, denied, dry_run))

\* _perform_cleaning and the entry point return.
Return ==
    /\ pc = "return"
    /\ pc' = "returned"
    /\ returned' = ReturnValue(warnings)
    /\ UNCHANGED <<fs, denied, profile, dry_run, mounted, err, log, warnings,
                   trace, fs0, repeat, errPrev>>

Next ==
    \/ \E d \in BOOLEAN, m \in BOOLEAN : remove_user_data(d, m)
    \/ \E d \in BOOLEAN, m \in BOOLEAN : remove_atmo_data(d, m)
    \/ \E d \in BOOLEAN, m \in BOOLEAN : remove_vm_specific_data(d, m)
    \/ RemoveFilesStage
    \/ OverwriteFilesStage
    \/ RemoveLineInFilesStage
    \/ ReplaceLineInFilesStage
    \/ RemoveMultilineInFilesStage
    \/ Return

Spec == Init /\ [][Next]_vars

\* The same calls on an image some of whose entries refuse mutation.
DeniedLists ==
    { <<P2("home", "alice")>>, <<EtcGroup>>, <<Syslog>>,
      <<P2("home", "alice"), EtcGroup>>, <<P2("home", "alice"), Syslog>>,
      <<EtcGroup, Syslog>>, <<P2("home", "alice"), EtcGroup, Syslog>> }

FaultTrees ==
    { ImageTree(TRUE, logs, File(ls), File(c), FALSE) :
        logs \in {"empty", "text"},
        ls \in BoundedSeq(GroupLines, MaxGroupLines) \ {<<>>},
        c \in SshdContents }

InitFail ==
    /\ fs \in FaultTrees
    /\ denied \in DeniedLists
    /\ InitCall

SpecFail == InitFail /\ [][Next]_vars

\* remove_multiline_in_files applied to etc/sudoers with the two sudoers rows
\* of remove_atmo_data's table.
SudoersTree(ls) ==
    [p \in Paths |->
        IF p \in {RootPath, P1("etc")} THEN Dir
        ELSE IF p = Sudoers THEN File(ls) ELSE Absent]

InitRange ==
    /\ fs \in { SudoersTree(ls) : ls \in BoundedSeq(SudoersLines, MaxSudoersLines) }
    /\ denied = <<>>
    /\ InitCall

\* The k-th row applied, k = 1 then 2; dry_run is fixed by the first.
ApplySudoersSpec(d) ==
    /\ pc = "idle"
    /\ Len(trace) < Len(AtmoSudoersSpecs)
    /\ (trace # <<>> => d = dry_run)
    /\ LET k == Len(trace) + 1
           r == remove_multiline_in_files(<<AtmoSudoersSpecs[k]>>, Acc, denied, d)
       IN  /\ fs' = r.fs
           /\ log' = r.log
           /\ warnings' = r.warnings
           /\ pc' = IF k = Len(AtmoSudoersSpecs) THEN "returned" ELSE "idle"
    /\ dry_run' = d
    /\ trace' = Append(trace, "remove_multiline_in_files")
    /\ UNCHANGED <<denied, profile, mounted, err, returned, fs0, repeat,
                   errPrev>>

NextRange == \E d \in BOOLEAN : ApplySudoersSpec(d)

SpecRange == InitRange /\ [][NextRange]_vars

---------------------------------------------------------------------------
(* Properties *)

Finished == pc \in {"returned", "raised"}

RealRun(prof) == profile = prof /\ mounted /\ ~dry_run

FiveStages ==
    << "remove_files", "overwrite_files", "remove_line_in_files",
       "replace_line_in_files", "remove_multiline_in_files" >>

\* The first line of a file equal to l, 0 if there is none.
FirstIndex(lines, l) ==
    IF \E i \in 1..Len(lines) : lines[i] = l
    THEN CHOOSE i \in 1..Len(lines) :
             lines[i] = l /\ \A j \in 1..(i - 1) : lines[j] # l
    ELSE 0

\* C1: a call of any entry point on a path that is not mounted raises the
\* mount error before any file operation is started, and the tree under the
\* path is exactly what it was when the call was made.
C1_UnmountedCallMutatesNothing ==
    (pc # "idle" /\ ~mounted) =>
        /\ pc = "raised"
        /\ err = "NotMounted"
        /\ trace = <<>>
        /\ log = <<>>
        /\ fs = fs0

C1_Witness ==
    /\ pc = "raised"
    /\ ~mounted
    /\ ~dry_run
    /\ profile = "remove_vm_specific_data"
    /\ fs[P2("tmp", "scratch")].kind = "file"
    /\ fs[Syslog] = File(SomeText)

\* C2: every call on a mounted path, whatever the entry point and dry_run,
\* ends having started the five file operations once each, in the order
\* remove_files, overwrite_files, remove_line_in_files,
\* replace_line_in_files, remove_multiline_in_files.
C2_FiveStagesInOrder ==
    (Finished /\ mounted) => (pc = "returned" /\ trace = FiveStages)

\* C3: a call that repeats the call before it (same entry point, mounted
\* path, dry_run=False both times) leaves the tree as the first call left it,
\* and ends the way the first call ended.
C3_SecondRunChangesNothing ==
    repeat => /\ fs = fs0
              /\ (Finished => err = errPrev)

C3_Witness ==
    /\ repeat
    /\ pc = "returned"
    /\ profile = "remove_user_data"
    /\ fs[EtcGroup] = File(<< <<"users:x:100:">>, <<"wheel:x:10:", "root">> >>)
    /\ fs[P2("home", "alice")] = Absent
    /\ \E i \in 1..Len(log) : log[i] = LogEntry("replace_line", EtcGroup)

\* Some entry of the tree is matched by a removal pattern of the entry point.
HasRemovalTarget(prof, tree) ==
    \E i \in 1..Len(Tables(prof).rm_files) :
        Glob(Tables(prof).rm_files[i], tree) # {}

\* C4: a call with dry_run=True on a mounted path leaves the tree unchanged
\* and, whenever the entry point has something to remove, ends with a
\* non-empty log of the intended operations.
C4_DryRunLogsIntendedOps ==
    (Finished /\ mounted /\ dry_run) =>
        /\ fs = fs0
        /\ (HasRemovalTarget(profile, fs0) => log # <<>>)

NoAtmosphereBlock(tree, p) ==
    \A i \in 1..Len(Entry(tree, p).lines) :
        Entry(tree, p).lines[i] # <<"## Atmosphere System">>

\* C6: once remove_atmo_data with dry_run=False on a mounted path is over,
\* no platform block is left in etc/sudoers, etc/ssh/sshd_config and
\* etc/skel/.bashrc; etc/sudoers with the lines '## Atmosphere System', foo,
\* bar, '# End Nagios', keep is reduced to the line keep.
C6_AtmoBlocksDeleted ==
    (Finished /\ RealRun("remove_atmo_data")) =>
        /\ NoAtmosphereBlock(fs, Sudoers)
        /\ NoAtmosphereBlock(fs, SshdConfig)
        /\ NoAtmosphereBlock(fs, SkelBashrc)
        /\ (fs0[Sudoers] = File(SudoersWithBlock) =>
                fs[Sudoers] = File(<< <<"keep">> >>))

\* C7: after remove_user_data with dry_run=False on a mounted path, etc/group
\* has its lines in the original order, each line that began users:x:100:
\* reading exactly users:x:100: and every other line unchanged.
C7_GroupLineReplaced ==
    (pc = "returned" /\ RealRun("remove_user_data")
        /\ fs0[EtcGroup].kind = "file") =>
        LET old == fs0[EtcGroup].lines
            new == fs[EtcGroup].lines
        IN  /\ fs[EtcGroup].kind = "file"
            /\ Len(new) = Len(old)
            /\ \A i \in 1..Len(old) :
                   IF Head(old[i]) = "users:x:100:"
                   THEN new[i] = <<"users:x:100:">>
                   ELSE new[i] = old[i]

C7_Witness ==
    /\ pc = "returned"
    /\ RealRun("remove_user_data")
    /\ fs0[EtcGroup] = File(<< <<"wheel:x:10:", "root">>,
                               <<"users:x:100:", "alice,bob">> >>)
    /\ fs[EtcGroup] = File(<< <<"wheel:x:10:", "root">>, <<"users:x:100:">> >>)

C10_UserDataFrame ==
    (profile = "remove_user_data" /\ mounted) =>
        \A p \in Paths :
            (/\ ~(Len(p) >= 2 /\ p[1] = <<"home">> /\ Head(p[2]) # ".")
             /\ p # EtcGroup
             /\ p # SshdConfig) => fs[p] = fs0[p]

C10_Witness ==
    /\ pc = "returned"
    /\ RealRun("remove_user_data")
    /\ fs0[P3("home", "alice", "notes")] = File(SomeText)
    /\ fs[P2("home", "alice")] = Absent
    /\ fs[P2("home2", "file")] = File(SomeText)
    /\ fs[RootPath] = Dir
    /\ \E j \in 1..Len(log) : log[j] = LogEntry("overwrite", RootPath)

=============================================================================
